---- MODULE Spec2Model ----
(***************************************************************************)
(* A model of the REGOS partner bot: its rate limiter                      *)
(* (src/regos/regos_rate_limiter.py), its API request functions            *)
(* (src/regos/api.py), the report methods built on them                    *)
(* (src/regos/reports.py) and the formatting of a partner's balance        *)
(* (src/format_messages/partner_balance.py); and of the per-credential     *)
(* registry of limiters, which the sources do not hold and which is taken  *)
(* from the written design.                                                *)
(*                                                                         *)
(* Each part has a specification of its own over the shared variables:     *)
(* Spec and LiveSpec (limiter), CancelSpec and CancelLiveSpec (limiter,    *)
(* with callers that may be cancelled), ApiSpec and ApiLiveSpec (request   *)
(* functions), ReportSpec, FormatSpec and RegSpec.                         *)
(*                                                                         *)
(* Time is discrete: one tick is 1/TicksPerSec of a second, and the clock  *)
(* `now` stands for time.monotonic().  asyncio tasks are cooperative: the  *)
(* code between two awaits of one task is one atomic step.                 *)
(***************************************************************************)
EXTENDS Integers, Sequences, FiniteSets, TLC

\* ---------------------------------------------------------------- bounds

\* Ticks of the model clock per second.
TicksPerSec == 2
\* The clock runs freely up to MaxTime; past it only as long as a sleeper
\* still needs time to pass.
MaxTime == 3
\* acquire() calls one task completes at most.
MaxCalls == 3
\* Largest rate / burst the constructor is given.
MaxParam == 2
\* Largest timeout_seconds a request is given.
MaxTimeout == 2
\* Longest script of upstream behaviours a request is run against.
MaxScript == 2
\* Requests (getOrCreate, then acquire) one task makes through the registry.
MaxRequests == 2
\* Most operations in the data format_partner_balance is given.
MaxOps == 3
\* Latest "date" of an operation; 0 stands for a missing date.
MaxDate == 2

\* The asyncio tasks that call into the limiter.
Tasks == {"t1", "t2"}
\* The task that runs the request functions of api.py.  Requests share no
\* state (each call opens a ClientSession of its own), so one is followed.
Requesters == {"t1"}
\* The lock's value when no task holds it.
NoTask == "none"
\* The timeout_seconds regos_async_api_request is called with.
TimeoutValues == 1 .. MaxTimeout
\* The arguments RegosRateLimiter(rate, burst) is constructed with.
ParamValues == -1 .. MaxParam
\* The credentials (integration tokens) requests are made for.
Credentials == {"c1", "c2"}

VARIABLES
    made,        \* a RegosRateLimiter object has been constructed
    rate,        \* self.rate
    capacity,    \* self.capacity
    tokens,      \* self.tokens
    updated_at,  \* self.updated_at
    lock,        \* self.lock: the task that holds it, or NoTask
    waiters,     \* self.lock's FIFO queue of tasks waiting for it
    now,         \* time.monotonic(), in ticks
    pc,          \* where each task is inside acquire()
    wake,        \* for a task in asyncio.sleep(wait_time): the tick it ends at
    acquired,    \* how many acquire() calls of each task have returned
    firstAt,     \* the tick of the first acquire() call, -1 before it
    rpc,         \* where each task is inside a request function of api.py
    script,      \* what the upstream does to the attempts of a task's request
    attempts,    \* network attempts (POSTs) made for each task's request
    outcome,     \* how each task's request function ended
    timeout_seconds, \* the timeout_seconds each task's request was given
    sent_at,     \* the tick the current attempt of each task was sent at
    ended_at,    \* the tick each task's request function ended at
    rep_fn,      \* the method of RegosReports that was called, or "none"
    rep_pc,      \* where the call of that method is
    answers,     \* what the upstream answers to each request of the call
    sent,        \* the requests the call has issued so far
    got,         \* how each request of the call ended: the locals docs,
                 \* operations, income_payments, outcome_payments
    doc_ids,     \* the document_ids the operations request was sent with
    result,      \* how the call ended: what it returned, or what it raised
    formatted,   \* format_partner_balance has been called and has returned
    data,        \* its argument data: the operations, in the order given
    lang,        \* its argument lang
    newest_first, \* its argument newest_first
    messages,    \* the list of messages it returned
    entries,     \* the registry: for each credential its limiter, 0 for none
    limiters,    \* the limiter objects the registry has constructed
    reg_lock,    \* the task that holds the registry's lock, or NoTask
    reg_pc,      \* where each task is between getOrCreate and acquire
    cred,        \* the credential each task asked the registry about
    seen,        \* what each task found in entries under the lock
    mine,        \* the limiter getOrCreate gave each task, 0 for none
    handed       \* for each credential, the limiters getOrCreate has given

limVars == <<made, rate, capacity, tokens, updated_at, lock, waiters, now, pc,
             wake, acquired, firstAt>>

apiVars ==
    <<rpc, script, attempts, outcome, timeout_seconds, sent_at, ended_at>>

repVars == <<rep_fn, rep_pc, answers, sent, got, doc_ids, result>>

fmtVars == <<formatted, data, lang, newest_first, messages>>

regVars == <<entries, limiters, reg_lock, reg_pc, cred, seen, mine, handed>>

\* The variables outside the limiter and the request functions.
extVars == <<repVars, fmtVars, regVars>>

\* What the methods of RegosReports, and what format_partner_balance, leave
\* alone.
notRep == <<limVars, apiVars, fmtVars, regVars>>
notFmt == <<limVars, apiVars, repVars, regVars>>

\* What the registry and the limiters it holds leave alone: the fields of
\* the single limiter object and its callers, and the rest.
notReg == <<made, tokens, updated_at, lock, waiters, pc, firstAt, apiVars,
            repVars, fmtVars>>

vars == <<limVars, apiVars, extVars>>

\* ---------------------------------------------------------------- helpers

Min(a, b) == IF a <= b THEN a ELSE b

\* Python's int(a / b) for b > 0: truncation toward zero.
TruncDiv(a, b) == IF a >= 0 THEN a \div b ELSE -((-a) \div b)

\* The least integer >= a / b, for a >= 0 and b > 0.
CeilDiv(a, b) == (a + b - 1) \div b

\* A faulty variant of Refilled: the cap at capacity is left out.
RefilledNoCap(tok, elapsed) ==
    TruncDiv(tok * TicksPerSec + elapsed * rate, TicksPerSec)

\* Line 22: min(self.capacity, int(self.tokens + elapsed * self.rate)), with
\* elapsed in ticks.
Refilled(tok, elapsed) ==
    Min(capacity, TruncDiv(tok * TicksPerSec + elapsed * rate, TicksPerSec))

\* A faulty variant of WaitTicks: the slow path does not wait.
WaitTicksNone(tok) == 0

\* Line 26: wait_time = (1 - self.tokens) / self.rate, in ticks, for rate # 0
\* and tok < 1.  asyncio.sleep ends at the first tick not before the wait is
\* over; a negative wait is over at once.
WaitTicks(tok) ==
    IF rate > 0 THEN CeilDiv((1 - tok) * TicksPerSec, rate)
    ELSE -(((1 - tok) * TicksPerSec) \div (-rate))

\* A faulty variant of BucketEmpty: the test is off by one.
BucketEmptyOffByOne(tok) == tok <= 1

\* Line 25: the bucket is empty.
BucketEmpty(tok) == tok < 1

\* A faulty variant of LockFree: the lock is taken whoever holds it.
LockFreeAlways == TRUE

\* Line 17, asyncio.Lock.acquire: the lock is taken at once when no task
\* holds it (and then none waits for it).
LockFree == lock = NoTask

\* The pc of every task once task t leaves the lock with pc value p: the
\* lock goes to the first waiter, which is made ready to run.
PcAfterRelease(t, p) ==
    IF waiters = <<>> THEN [pc EXCEPT ![t] = p]
    ELSE [pc EXCEPT ![t] = p, ![Head(waiters)] = "granted"]

\* A faulty variant of Release: the lock is freed and no waiter is woken.
ReleaseLostWakeup(t, p) ==
    /\ pc' = [pc EXCEPT ![t] = p]
    /\ lock' = NoTask
    /\ waiters' = waiters

\* Leaving `async with self.lock` (asyncio.Lock.release, FIFO hand-over).
Release(t, p) ==
    /\ pc' = PcAfterRelease(t, p)
    /\ lock' = IF waiters = <<>> THEN NoTask ELSE Head(waiters)
    /\ waiters' = IF waiters = <<>> THEN <<>> ELSE Tail(waiters)

\* A faulty variant of LeaveCancelled: the CancelledError leaves acquire()
\* and the lock stays with the cancelled task.
LeaveCancelledKeepsLock(t) ==
    /\ pc' = [pc EXCEPT ![t] = "cancelled"]
    /\ UNCHANGED <<lock, waiters>>

\* CancelledError leaves `async with self.lock` in a task that holds the
\* lock or has just been handed it: the lock is released on the way out
\* (the next waiter, if any, gets it).
LeaveCancelled(t) == Release(t, "cancelled")

\* Lines 18-30 up to the first await, run by task t holding the lock.
Critical(t) ==
    LET tok == Refilled(tokens, now - updated_at) IN
    /\ updated_at' = now
    /\ IF BucketEmpty(tok)
       THEN IF rate = 0
            THEN \* (1 - tokens) / 0: ZeroDivisionError leaves the with block
                 /\ tokens' = tok
                 /\ Release(t, "raised")
                 /\ UNCHANGED <<wake, acquired>>
            ELSE /\ tokens' = tok
                 /\ wake' = [wake EXCEPT ![t] = now + WaitTicks(tok)]
                 /\ pc' = [pc EXCEPT ![t] = "sleep"]
                 /\ lock' = t
                 /\ UNCHANGED <<waiters, acquired>>
       ELSE /\ tokens' = tok - 1
            /\ acquired' = [acquired EXCEPT ![t] = @ + 1]
            /\ Release(t, "idle")
            /\ UNCHANGED wake

\* ------------------------------------------------- api.py: data, helpers

\* A JSON field that is not there.
Absent == "absent"

\* Status codes of api.py.
HTTP_OK == 200
BAD_REQUEST == 400
BAD_GATEWAY == 502
GATEWAY_TIMEOUT == 504

\* Response bodies: valid JSON or not, the "ok" flag, and under "result" the
\* error fields or the data.
BodyOk ==
    [json |-> TRUE, ok |-> TRUE, error |-> Absent, description |-> Absent,
     result |-> "x1"]
BodyErr ==
    [json |-> TRUE, ok |-> FALSE, error |-> "E1", description |-> "bad",
     result |-> Absent]
BodyErrBare ==
    [json |-> TRUE, ok |-> FALSE, error |-> Absent, description |-> Absent,
     result |-> Absent]
BodyBad ==
    [json |-> FALSE, ok |-> FALSE, error |-> Absent, description |-> Absent,
     result |-> Absent]
\* ok is true and the result is an empty list.
BodyOkEmpty ==
    [json |-> TRUE, ok |-> TRUE, error |-> Absent, description |-> Absent,
     result |-> "empty"]
\* ok is false and "result" is null, not an object.
BodyErrNull ==
    [json |-> TRUE, ok |-> FALSE, error |-> Absent, description |-> Absent,
     result |-> "null"]
\* The body of a response whose body is never read.
BodyNone ==
    [json |-> FALSE, ok |-> FALSE, error |-> Absent, description |-> Absent,
     result |-> "unread"]
\* Python's None as a returned value, and the value of a call that returned
\* nothing (yet).
NoneValue ==
    [json |-> FALSE, ok |-> FALSE, error |-> Absent, description |-> Absent,
     result |-> "None"]
NoValue ==
    [json |-> FALSE, ok |-> FALSE, error |-> Absent, description |-> Absent,
     result |-> "no value"]

\* What the upstream and the network do to one attempt: an HTTP response, no
\* answer at all ("silent"), or a network-level failure ("client_error").
HttpResponse(st, b) == [kind |-> "http", status |-> st, body |-> b]
R200ok == HttpResponse(200, BodyOk)
R200err == HttpResponse(200, BodyErr)
R200errBare == HttpResponse(200, BodyErrBare)
R200bad == HttpResponse(200, BodyBad)
R200empty == HttpResponse(200, BodyOkEmpty)
R200errNull == HttpResponse(200, BodyErrNull)
R404 == HttpResponse(404, BodyNone)
R429 == HttpResponse(429, BodyNone)
R500 == HttpResponse(500, BodyNone)
RSilent == [kind |-> "silent", status |-> 0, body |-> BodyNone]
RClientError == [kind |-> "client_error", status |-> 0, body |-> BodyNone]

Responses ==
    {R200ok, R200empty, R200err, R200errBare, R200errNull, R200bad, R404,
     R429, R500, RSilent, RClientError}

\* The scripts a request is run against: the k-th attempt of the request
\* meets the k-th element, and the last element from then on.
Scripts == UNION {[1 .. n -> Responses] : n \in 1 .. MaxScript}

\* How a request function ended: it returned a value or raised.  status_code
\* is the HTTPException's, upstream the upstream status its detail names,
\* error and description the fields its detail quotes.
NoOutcome ==
    [via |-> "none", tag |-> "none", exc |-> "", status_code |-> 0,
     upstream |-> 0, error |-> "", description |-> "", value |-> NoValue]

Returned(fn, v) ==
    [via |-> fn, tag |-> "return", exc |-> "", status_code |-> 0,
     upstream |-> 0, error |-> "", description |-> "", value |-> v]

Raised(fn, e, code, up, err, desc) ==
    [via |-> fn, tag |-> "raise", exc |-> e, status_code |-> code,
     upstream |-> up, error |-> err, description |-> desc, value |-> NoValue]

\* dict.get(key, default) on a field of the body.
GetOr(v, default) == IF v = Absent THEN default ELSE v

\* A faulty variant of Succeeds: the "ok" flag is not looked at.
SucceedsUnchecked(body) == TRUE

\* Line 55: data.get("ok") is truthy.
Succeeds(body) == body.ok

\* A faulty variant of ApiError: the error fields are looked up in the body
\* itself, where they are not, instead of under "result".
ApiErrorFromTopLevel(body) ==
    Raised("regos_async_api_request", "HTTPException", BAD_REQUEST, 0,
           "Unknown", "Unknown error")

\* Lines 56-64: the HTTPException for a body whose "ok" is false and whose
\* "result" is an object (or missing); its detail quotes the error code and
\* the description found there.
ApiError(body) ==
    Raised("regos_async_api_request", "HTTPException", BAD_REQUEST, 0,
           GetOr(body.error, "Unknown"),
           GetOr(body.description, "Unknown error"))

\* A faulty variant of StatusFailure: as in regos_api_request, the failure is
\* logged and None is returned.
StatusFailureReturnsNone(st) == Returned("regos_async_api_request", NoneValue)

\* Lines 67-72: the HTTPException for a status other than 200; its detail
\* names the status.
StatusFailure(st) ==
    Raised("regos_async_api_request", "HTTPException", BAD_GATEWAY, st, "", "")

\* A faulty variant of Classify: the upstream status is left out of the
\* error, and every failure but a timeout is reported alike.
ClassifyStatusLost(resp) ==
    LET fn == "regos_async_api_request" IN
    CASE resp.kind = "silent" ->
            Raised(fn, "HTTPException", GATEWAY_TIMEOUT, 0, "", "")
      [] resp.kind = "http" /\ resp.status = HTTP_OK /\ resp.body.json
            /\ resp.body.ok ->
            Returned(fn, resp.body)
      [] resp.kind = "http" /\ resp.status = HTTP_OK /\ resp.body.json ->
            Raised(fn, "HTTPException", BAD_REQUEST, 0,
                   GetOr(resp.body.error, "Unknown"),
                   GetOr(resp.body.description, "Unknown error"))
      [] OTHER ->
            Raised(fn, "HTTPException", BAD_GATEWAY, 0, "", "")

\* regos_async_api_request, lines 42-85: what becomes of an attempt that
\* met resp.
Classify(resp) ==
    LET fn == "regos_async_api_request" IN
    CASE resp.kind = "silent" ->
            \* lines 74-79: asyncio.TimeoutError
            Raised(fn, "HTTPException", GATEWAY_TIMEOUT, 0, "", "")
      [] resp.kind = "client_error" ->
            \* lines 80-85: aiohttp.ClientError
            Raised(fn, "HTTPException", BAD_GATEWAY, 0, "", "")
      [] resp.kind = "http" /\ resp.status = HTTP_OK /\ ~resp.body.json ->
            \* line 52: response.json() fails to decode, nothing catches it
            Raised(fn, "JSONDecodeError", 0, 0, "", "")
      [] resp.kind = "http" /\ resp.status = HTTP_OK /\ resp.body.json
            /\ ~Succeeds(resp.body) /\ resp.body.result = "null" ->
            \* lines 56-57: data.get("result", {}) is None, None.get(...)
            \* raises, nothing catches it
            Raised(fn, "AttributeError", 0, 0, "", "")
      [] resp.kind = "http" /\ resp.status = HTTP_OK /\ resp.body.json
            /\ ~Succeeds(resp.body) ->
            \* lines 55-64
            ApiError(resp.body)
      [] resp.kind = "http" /\ resp.status = HTTP_OK /\ resp.body.json
            /\ Succeeds(resp.body) ->
            \* line 66
            Returned(fn, resp.body)
      [] OTHER ->
            \* lines 67-72: any other status
            StatusFailure(resp.status)

\* A faulty variant of ClassifySync: the blocking function ends as the
\* asynchronous one does.
ClassifySyncAsAsync(resp) ==
    [Classify(resp) EXCEPT !.via = "regos_api_request"]

\* regos_api_request, lines 113-124: requests.post has no timeout and no
\* exception is caught.
ClassifySync(resp) ==
    LET fn == "regos_api_request" IN
    CASE resp.kind = "client_error" ->
            Raised(fn, "RequestException", 0, 0, "", "")
      [] resp.kind = "http" /\ resp.status = HTTP_OK /\ ~resp.body.json ->
            Raised(fn, "JSONDecodeError", 0, 0, "", "")
      [] resp.kind = "http" /\ resp.status = HTTP_OK /\ resp.body.json ->
            Returned(fn, resp.body)
      [] OTHER ->
            \* lines 122-124: logged, None returned
            Returned(fn, NoneValue)

\* What the current attempt of task t's request meets.
Reply(t) == script[t][Min(attempts[t], Len(script[t]))]

\* The response, or the failure, reaches the client.
Arrives(resp) == resp.kind # "silent"

\* A faulty variant of Deadline: timeout_seconds is given to the connection
\* and to the read each, not to the whole attempt.
DeadlineConnectPlusRead(t) == sent_at[t] + 2 * timeout_seconds[t] * TicksPerSec

\* The tick at which the total timeout of task t's attempt is over.
Deadline(t) == sent_at[t] + timeout_seconds[t] * TicksPerSec

\* A faulty variant of Expired: the session is given no timeout.
NeverExpired(t) == FALSE

\* Lines 40 and 44: aiohttp.ClientTimeout(total=timeout_seconds) ends an
\* attempt that has had no answer for timeout_seconds.
Expired(t) == now >= Deadline(t)

\* --------------------------------------------- reports.py: data, helpers

\* The requests the methods of RegosReports make: the documents and the
\* operations request of get_partner_stock_operations, the Income and the
\* Outcome request of get_partner_payments.
StockRequests == {"docs", "operations"}
PaymentRequests == {"income", "outcome"}
RequestNames == StockRequests \cup PaymentRequests

\* How a method of RegosReports ended: the dict it returned, each key with
\* the "result" stored under it or Absent, or the exception that left it.
NoResult ==
    [tag |-> "none", error |-> NoOutcome, documents |-> Absent,
     operations |-> Absent, income |-> Absent, outcome |-> Absent]

ReportReturned(d, o, i, u) ==
    [tag |-> "return", error |-> NoOutcome, documents |-> d,
     operations |-> o, income |-> i, outcome |-> u]

\* An exception of a request is caught nowhere in reports.py: it leaves the
\* method.
ReportRaised(e) ==
    [tag |-> "raise", error |-> e, documents |-> Absent,
     operations |-> Absent, income |-> Absent, outcome |-> Absent]

\* The value a request gave the method is falsy: None or an empty dict.
Falsy(v) == v \in {NoneValue, NoValue}

\* Lines 64 and 77: `not x or not x.get("ok") or len(x.get("result", [])) == 0`.
NothingIn(v) == Falsy(v) \/ ~v.ok \/ v.result \in {"empty", Absent}

\* A faulty variant of SomethingIn: any value that is not None counts.
SomethingInAny(v) == ~Falsy(v)

\* Lines 117 and 119: `x and x.get("ok") and x.get("result")`.
SomethingIn(v) == ~Falsy(v) /\ v.ok /\ v.result \notin {"empty", Absent, "null"}

\* ok is true and the result is a list of two items.
BodyOkTwo ==
    [json |-> TRUE, ok |-> TRUE, error |-> Absent, description |-> Absent,
     result |-> "x2"]
R200two == HttpResponse(200, BodyOkTwo)

\* What the upstream answers to a request of a report method.
ReportResponses == Responses \cup {R200two}

\* The documents a "result" of the documents request lists: "x1" is one
\* document, "x2" two.
Documents(res) ==
    CASE res = "x1" -> <<[id |-> 1]>>
      [] res = "x2" -> <<[id |-> 1], [id |-> 2]>>
      [] OTHER -> <<>>

\* A faulty variant of DocIds: only the first document is asked about.
DocIdsFirstOnly(res) ==
    IF Documents(res) = <<>> THEN <<>> ELSE <<Documents(res)[1].id>>

\* Line 67: [doc["id"] for doc in docs["result"]].
DocIds(res) == [k \in 1 .. Len(Documents(res)) |-> Documents(res)[k].id]

\* ------------------------------------- partner_balance.py: data, helpers

\* The languages TranslatorService loads (translator_service.py, lines
\* 12-14), the values of lang.
Languages == {"en", "ru", "uz"}

\* The currency names of the operations.
CurrencyNames == {"USD", "EUR"}

\* An operation of the data: the fields the grouping and the ordering read.
Operations == [currency : CurrencyNames, date : 0 .. MaxDate]

\* The lists of operations format_partner_balance is given.
DataLists == UNION {[1 .. n -> Operations] : n \in 0 .. MaxOps}

\* The keys the translations have an entry for, in every language.
TranslatedKeys == {"no_data", "remainder", "current"}

\* A faulty variant of Translate: the language asked for is ignored, the
\* default language is used.
TranslateDefaultLang(key, l) ==
    IF key \in TranslatedKeys THEN [lang |-> "ru", key |-> key]
    ELSE [lang |-> "", key |-> key]

\* translator.get(key, lang): the entry of language l under key, or the key
\* itself when there is none (translator_service.py, line 34).
Translate(key, l) ==
    IF key \in TranslatedKeys THEN [lang |-> l, key |-> key]
    ELSE [lang |-> "", key |-> key]

\* A message of the returned list: the text of a translation alone, or the
\* text for one currency, with one block per operation (its index in data)
\* whose remainder line is labelled as the current one or not.
TextMessage(tr) ==
    [kind |-> "text", text |-> tr, currency |-> "", blocks |-> <<>>]

\* Lines 26-29: the indices of the operations of currency c in d.
OpsOf(d, c) == {i \in 1 .. Len(d) : d[i].currency = c}

\* Lines 26-29: the currencies of d, in the order they first appear in (a
\* dict keeps the order of insertion).
FirstOf(d, c) == CHOOSE i \in OpsOf(d, c) : \A j \in OpsOf(d, c) : i <= j
CurrenciesOf(d) ==
    LET cs == {d[i].currency : i \in 1 .. Len(d)}
        Rank(c) == Cardinality({b \in cs : FirstOf(d, b) <= FirstOf(d, c)})
    IN  [k \in 1 .. Cardinality(cs) |-> CHOOSE c \in cs : Rank(c) = k]

\* Line 35: operation i comes before operation j after
\* operations.sort(key=date, reverse=nf); the sort is stable in both
\* directions.
SortsBefore(d, i, j, nf) ==
    \/ (~nf /\ d[i].date < d[j].date)
    \/ (nf /\ d[i].date > d[j].date)
    \/ (d[i].date = d[j].date /\ i < j)

\* Line 35: the operations of currency c, sorted.
SortedOps(d, c, nf) ==
    LET S == OpsOf(d, c)
        Rank(i) == Cardinality({j \in S : j = i \/ SortsBefore(d, j, i, nf)})
    IN  [k \in 1 .. Cardinality(S) |-> CHOOSE i \in S : Rank(i) = k]

\* Line 36: last_op = operations[-1].
LastOp(ops) == ops[Len(ops)]

\* Lines 21-79.  With at most MaxOps operations no text comes near 2048
\* characters (an operation takes some 130), so the splitting of lines
\* 72-75 does not come into play.
FormatPartnerBalance(d, l, nf) ==
    IF d = <<>>
    THEN <<TextMessage(Translate("no_data", l))>>
    ELSE LET cs == CurrenciesOf(d) IN
         [k \in 1 .. Len(cs) |->
            LET ops == SortedOps(d, cs[k], nf) IN
            [kind |-> "currency", text |-> Translate("remainder", l),
             currency |-> cs[k],
             blocks |-> [n \in 1 .. Len(ops) |->
                           [op |-> ops[n], current |-> ops[n] = LastOp(ops)]]]]

\* ---------------------------------------------------------------- actions

Init ==
    /\ made = FALSE
    /\ rate = 0
    /\ capacity = 0
    /\ tokens = 0
    /\ updated_at = 0
    /\ lock = NoTask
    /\ waiters = <<>>
    /\ now = 0
    /\ pc = [t \in Tasks |-> "idle"]
    /\ wake = [t \in Tasks |-> 0]
    /\ acquired = [t \in Tasks |-> 0]
    /\ firstAt = -1
    /\ rpc = [t \in Tasks |-> "idle"]
    /\ script = [t \in Tasks |-> <<>>]
    /\ attempts = [t \in Tasks |-> 0]
    /\ outcome = [t \in Tasks |-> NoOutcome]
    /\ timeout_seconds = [t \in Tasks |-> 0]
    /\ sent_at = [t \in Tasks |-> 0]
    /\ ended_at = [t \in Tasks |-> 0]
    /\ rep_fn = "none"
    /\ rep_pc = "idle"
    /\ answers = [n \in RequestNames |-> R200ok]
    /\ sent = {}
    /\ got = [n \in RequestNames |-> NoOutcome]
    /\ doc_ids = <<>>
    /\ result = NoResult
    /\ formatted = FALSE
    /\ data = <<>>
    /\ lang = "ru"
    /\ newest_first = FALSE
    /\ messages = <<>>
    /\ entries = [c \in Credentials |-> 0]
    /\ limiters = <<>>
    /\ reg_lock = NoTask
    /\ reg_pc = [t \in Tasks |-> "idle"]
    /\ cred = [t \in Tasks |-> "none"]
    /\ seen = [t \in Tasks |-> 0]
    /\ mine = [t \in Tasks |-> 0]
    /\ handed = [c \in Credentials |-> {}]

\* RegosRateLimiter.__init__(rate, burst): no argument is rejected.
Construct(r, b) ==
    /\ ~made
    /\ made' = TRUE
    /\ rate' = r
    /\ capacity' = b
    /\ tokens' = b
    /\ updated_at' = now
    /\ UNCHANGED <<lock, waiters, now, pc, wake, acquired, firstAt, apiVars,
                   extVars>>

\* Task t calls acquire(): it takes a free lock without suspending and runs
\* the critical section at once, or queues for the lock.
Call(t) ==
    /\ made
    /\ pc[t] = "idle"
    /\ acquired[t] < MaxCalls
    /\ firstAt' = IF firstAt < 0 THEN now ELSE firstAt
    /\ IF LockFree
       THEN Critical(t)
       ELSE /\ waiters' = Append(waiters, t)
            /\ pc' = [pc EXCEPT ![t] = "waitlock"]
            /\ UNCHANGED <<tokens, updated_at, lock, wake, acquired>>
    /\ UNCHANGED <<made, rate, capacity, now, apiVars, extVars>>

\* Task t, handed the lock, is resumed and runs the critical section.
Resume(t) ==
    /\ pc[t] = "granted"
    /\ Critical(t)
    /\ UNCHANGED <<made, rate, capacity, now, firstAt, apiVars, extVars>>

\* asyncio.sleep(wait_time) of task t is over: line 28, then the lock is left
\* and acquire() returns.
Wake(t) ==
    /\ pc[t] = "sleep"
    /\ now >= wake[t]
    /\ tokens' = 0
    /\ acquired' = [acquired EXCEPT ![t] = @ + 1]
    /\ Release(t, "idle")
    /\ UNCHANGED <<made, rate, capacity, updated_at, now, wake, firstAt,
                   apiVars, extVars>>

\* A sleeper still needs time to pass.
SleeperWaiting == \E t \in Tasks : pc[t] = "sleep" /\ now < wake[t]

\* One tick of time.monotonic().
Tick ==
    /\ made
    /\ now < MaxTime \/ SleeperWaiting
    /\ now' = now + 1
    /\ UNCHANGED <<made, rate, capacity, tokens, updated_at, lock, waiters,
                   pc, wake, acquired, firstAt, apiVars, extVars>>

Next ==
    \/ \E r \in ParamValues, b \in ParamValues : Construct(r, b)
    \/ \E t \in Tasks : Call(t)
    \/ \E t \in Tasks : Resume(t)
    \/ \E t \in Tasks : Wake(t)
    \/ Tick

Spec == Init /\ [][Next]_vars

\* The same steps, scheduled fairly: the event loop resumes every ready task
\* and the clock keeps running while a sleeper waits for it.
LiveSpec ==
    /\ Spec
    /\ \A t \in Tasks : WF_vars(Resume(t)) /\ WF_vars(Wake(t))
    /\ WF_vars(Tick)

\* Task t is cancelled while suspended inside acquire(): CancelledError is
\* raised at the await it is suspended at.  In asyncio.sleep (line 27) it
\* leaves the with block, line 28 is not run; queued for the lock (line 17)
\* the task leaves the queue; handed the lock but not yet resumed, it
\* passes the lock on.  The call does not return and the task ends.
Cancel(t) ==
    /\ pc[t] \in {"sleep", "waitlock", "granted"}
    /\ IF pc[t] = "waitlock"
       THEN /\ waiters' = SelectSeq(waiters, LAMBDA u : u # t)
            /\ pc' = [pc EXCEPT ![t] = "cancelled"]
            /\ UNCHANGED lock
       ELSE LeaveCancelled(t)
    /\ UNCHANGED <<made, rate, capacity, tokens, updated_at, now, wake,
                   acquired, firstAt, apiVars, extVars>>

\* The limiter with callers that may be cancelled.
CancelNext ==
    \/ Next
    \/ \E t \in Tasks : Cancel(t)

CancelSpec == Init /\ [][CancelNext]_vars

\* The scheduling of LiveSpec; nothing obliges a caller to be cancelled.
CancelLiveSpec ==
    /\ CancelSpec
    /\ \A t \in Tasks : WF_vars(Resume(t)) /\ WF_vars(Wake(t))
    /\ WF_vars(Tick)

\* ------------------------------------------------------ limiter: claims

\* A limiter constructed with rate > 0 and burst > 0.
Valid == made /\ rate > 0 /\ capacity > 0

RECURSIVE SumOver(_, _)
SumOver(f, S) ==
    IF S = {} THEN 0
    ELSE LET x == CHOOSE y \in S : TRUE IN f[x] + SumOver(f, S \ {x})

\* acquire() calls that have returned, over all tasks.
Admitted == SumOver(acquired, Tasks)

\* acquire() calls that have run the refill of lines 18-22 so far.
Entered == Admitted + Cardinality({t \in Tasks : pc[t] \in {"sleep", "raised"}})

\* Task t is the only one that has called acquire().
OnlyCaller(t) == \A u \in Tasks \ {t} : pc[u] = "idle" /\ acquired[u] = 0

\* C1: on a limiter constructed with rate > 0 and capacity > 0,
\* 0 <= tokens <= capacity holds in every reachable state, whatever the
\* interleaving of the callers and the passage of time.
C1_TokensInRange == Valid => (0 <= tokens /\ tokens <= capacity)

\* C1's case: two callers are inside acquire() at once (one asleep on the
\* slow path holding the lock, one queued), time has passed and calls have
\* already been admitted.
C1_Witness ==
    /\ Valid
    /\ now > 0
    /\ Admitted >= 2
    /\ \E t \in Tasks : pc[t] = "sleep"
    /\ waiters # <<>>

\* C2: N > C back-to-back acquire() calls of a single caller on an otherwise
\* idle limiter take at least (N - C) / R seconds from the first call on,
\* i.e. (now - firstAt) * rate >= (N - capacity) * TicksPerSec.
C2_RateBound ==
    \A t \in Tasks :
        (Valid /\ OnlyCaller(t) /\ acquired[t] > capacity)
            => (now - firstAt) * rate >= (acquired[t] - capacity) * TicksPerSec

\* C3: on a fresh limiter of capacity C, as long as no more than C calls have
\* been made, every call has returned in the step it was made in (no task
\* waits for the lock or sleeps), and each has taken one token and no more.
C3_BurstFastPath ==
    (Valid /\ Entered <= capacity)
        => /\ \A t \in Tasks : pc[t] = "idle"
           /\ tokens >= capacity - Entered
           /\ (Entered >= 1 => tokens < capacity)

\* C3's case: exactly C calls have been made, by both tasks, with C >= 2.
C3_Witness ==
    /\ Valid
    /\ capacity >= 2
    /\ Entered = capacity
    /\ \A t \in Tasks : acquired[t] >= 1

\* C4: no limiter with a non-positive rate or capacity exists, acquire()
\* never divides by zero and never computes a negative wait.
C4_NoInvalidLimiter ==
    /\ made => (rate > 0 /\ capacity > 0)
    /\ \A t \in Tasks : pc[t] # "raised"
    /\ \A t \in Tasks : pc[t] = "sleep" => wake[t] >= updated_at

\* C5 (never fails): acquire() raises nothing on a valid limiter.
C5_NeverFails == Valid => \A t \in Tasks : pc[t] # "raised"

\* C5: on a valid limiter every call of acquire() that is suspended (queued
\* for the lock, handed it, or asleep on the slow path) eventually returns,
\* counted as one more admitted call of its task, and no call fails.
C5_AcquireReturns ==
    /\ [](C5_NeverFails)
    /\ \A t \in Tasks : \A k \in 0 .. (MaxCalls - 1) :
          (Valid /\ pc[t] # "idle" /\ acquired[t] = k)
              ~> (pc[t] = "idle" /\ acquired[t] = k + 1)

\* C5's case: one caller sleeps on the slow path while the other is queued
\* behind it for the lock.
C5_Witness ==
    /\ Valid
    /\ \E t \in Tasks : pc[t] = "sleep" /\ now < wake[t]
    /\ \E t \in Tasks : pc[t] = "waitlock"

\* ------------------------------------------------------ api.py: actions

\* Task t calls regos_async_api_request with timeout_seconds = secs against
\* an upstream that behaves as sc: lines 32-49, the POST is sent and the task
\* waits for the response.  No limiter is consulted.
AsyncRequest(t, sc, secs) ==
    /\ rpc[t] = "idle"
    /\ rpc' = [rpc EXCEPT ![t] = "post"]
    /\ script' = [script EXCEPT ![t] = sc]
    /\ attempts' = [attempts EXCEPT ![t] = 1]
    /\ timeout_seconds' = [timeout_seconds EXCEPT ![t] = secs]
    /\ sent_at' = [sent_at EXCEPT ![t] = now]
    /\ UNCHANGED <<outcome, ended_at, limVars, extVars>>

\* A variant of Settle that retries: on 429 the request is sent again, as
\* long as the script has another answer.
SettleRetry429(t, resp) ==
    IF resp.kind = "http" /\ resp.status = 429 /\ attempts[t] < Len(script[t])
    THEN /\ attempts' = [attempts EXCEPT ![t] = @ + 1]
         /\ sent_at' = [sent_at EXCEPT ![t] = now]
         /\ UNCHANGED <<rpc, outcome, script, timeout_seconds, ended_at>>
    ELSE /\ rpc' = [rpc EXCEPT ![t] = "done"]
         /\ outcome' = [outcome EXCEPT ![t] = Classify(resp)]
         /\ ended_at' = [ended_at EXCEPT ![t] = now]
         /\ UNCHANGED <<script, attempts, timeout_seconds, sent_at>>

\* Lines 51-85 for the attempt that met resp: every branch leaves the
\* function, by return or by raise.
Settle(t, resp) ==
    /\ rpc' = [rpc EXCEPT ![t] = "done"]
    /\ outcome' = [outcome EXCEPT ![t] = Classify(resp)]
    /\ ended_at' = [ended_at EXCEPT ![t] = now]
    /\ UNCHANGED <<script, attempts, timeout_seconds, sent_at>>

\* The network phase of task t's attempt ends: a response or a failure
\* arrives, or the session's timeout is over.
Respond(t) ==
    /\ rpc[t] = "post"
    /\ Arrives(Reply(t)) \/ Expired(t)
    /\ Settle(t, Reply(t))
    /\ UNCHANGED <<limVars, extVars>>

\* Task t calls the blocking regos_api_request against an upstream that
\* behaves as sc: one POST; with no answer the call never comes back.
SyncRequest(t, sc) ==
    /\ rpc[t] = "idle"
    /\ script' = [script EXCEPT ![t] = sc]
    /\ attempts' = [attempts EXCEPT ![t] = 1]
    /\ sent_at' = [sent_at EXCEPT ![t] = now]
    /\ IF Arrives(sc[1])
       THEN /\ rpc' = [rpc EXCEPT ![t] = "done"]
            /\ outcome' = [outcome EXCEPT ![t] = ClassifySync(sc[1])]
            /\ ended_at' = [ended_at EXCEPT ![t] = now]
       ELSE /\ rpc' = [rpc EXCEPT ![t] = "hung"]
            /\ UNCHANGED <<outcome, ended_at>>
    /\ UNCHANGED <<timeout_seconds, limVars, extVars>>

\* An attempt of task t is in flight and time may still pass for it: an
\* answer or a failure arrives before the timeout is over, and the timeout
\* fires when it is over.
MayWait(t) ==
    IF Arrives(Reply(t)) THEN now + 1 < Deadline(t) ELSE now < Deadline(t)

\* Some attempt is waiting for its timeout.
TimeoutPending ==
    \E t \in Requesters : rpc[t] = "post" /\ ~Arrives(Reply(t)) /\ ~Expired(t)

\* One tick of the clock while requests are made.
ApiTick ==
    /\ now < MaxTime \/ TimeoutPending
    /\ \A t \in Requesters : rpc[t] = "post" => MayWait(t)
    /\ now' = now + 1
    /\ UNCHANGED <<made, rate, capacity, tokens, updated_at, lock, waiters,
                   pc, wake, acquired, firstAt, apiVars, extVars>>

ApiNext ==
    \/ \E t \in Requesters, sc \in Scripts, secs \in TimeoutValues :
          AsyncRequest(t, sc, secs)
    \/ \E t \in Requesters : Respond(t)
    \/ \E t \in Requesters, sc \in Scripts : SyncRequest(t, sc)
    \/ ApiTick

ApiSpec == Init /\ [][ApiNext]_vars

\* The event loop resumes a task whose network phase has ended, and the
\* clock keeps running while a timeout is pending.
ApiLiveSpec ==
    /\ ApiSpec
    /\ \A t \in Requesters : WF_vars(Respond(t))
    /\ WF_vars(ApiTick)

\* ------------------------------------------------------- api.py: claims

\* Task t's request was made through regos_async_api_request and has ended.
AsyncDone(t) == rpc[t] = "done" /\ outcome[t].via = "regos_async_api_request"

\* The upstream answers 429 to every attempt of task t's request.
All429(t) == \A k \in 1 .. Len(script[t]) : script[t][k] = R429

\* regos_async_api_request's error for an upstream status other than 200.
StatusError(st) ==
    Raised("regos_async_api_request", "HTTPException", BAD_GATEWAY, st, "", "")

\* C6: every network attempt of a request is preceded by a completed
\* acquire() of the task that makes it: no more attempts than acquire()
\* calls returned.
C6_AdmissionBeforeSend == \A t \in Tasks : attempts[t] <= acquired[t]

Is200NotOk(resp) ==
    resp.kind = "http" /\ resp.status = 200 /\ resp.body.json /\ ~resp.body.ok

\* resp is an HTTP 200 response with a JSON body whose "ok" is true.
Is200Ok(resp) ==
    resp.kind = "http" /\ resp.status = 200 /\ resp.body.json /\ resp.body.ok

\* The body carries its error in an object under "result" (or has no
\* "result" at all), as the wire protocol has it; not so when "result" is
\* null.
HasErrorObject(body) == body.result # "null"

C12_SuccessOnlyOn200Ok ==
    \A t \in Requesters :
        AsyncDone(t)
            => /\ (outcome[t].tag = "return") <=> Is200Ok(Reply(t))
               /\ Is200Ok(Reply(t)) => outcome[t].value = Reply(t).body

\* C12's case: a request answered 200 with ok=true has returned that body,
\* here the one with the empty result.
C12_Witness ==
    \E t \in Requesters :
        /\ AsyncDone(t)
        /\ Reply(t) = R200empty
        /\ outcome[t].value = BodyOkEmpty

\* resp is an HTTP response with a status other than 200 and 429.
IsOtherStatus(resp) == resp.kind = "http" /\ resp.status \notin {200, 429}

\* C13: a response with a status other than 200 and 429 ends the request
\* with the transport error (HTTPException 502) that names that status,
\* after exactly one network attempt.
C13_TransportError ==
    \A t \in Requesters :
        (AsyncDone(t) /\ IsOtherStatus(script[t][1]))
            => /\ outcome[t] = StatusError(script[t][1].status)
               /\ attempts[t] = 1

\* C13's case: a request answered 404 has ended, against an upstream whose
\* next answer would have been another one.
C13_Witness ==
    \E t \in Requesters :
        AsyncDone(t) /\ script[t] = <<R404, R200ok>>

\* regos_async_api_request's error for an attempt that had no answer within
\* timeout_seconds.
TimeoutError ==
    Raised("regos_async_api_request", "HTTPException", 504, 0, "", "")

\* C14: an attempt that gets no answer is never pending later than
\* timeout_seconds after it was sent, and ends the request with the timeout
\* error (HTTPException 504) no later than that; the time is counted from
\* the sending of the attempt.
C14_TimeoutBound ==
    \A t \in Requesters :
        /\ (rpc[t] = "post" /\ Reply(t) = RSilent)
              => now - sent_at[t] <= timeout_seconds[t] * TicksPerSec
        /\ (AsyncDone(t) /\ Reply(t) = RSilent)
              => /\ outcome[t] = TimeoutError
                 /\ ended_at[t] - sent_at[t] <= timeout_seconds[t] * TicksPerSec

\* C14's case: a request sent after some time had passed, with the longest
\* timeout, got no answer and has ended.
C14_Witness ==
    \E t \in Requesters :
        /\ AsyncDone(t)
        /\ Reply(t) = RSilent
        /\ sent_at[t] > 0
        /\ timeout_seconds[t] = MaxTimeout
        /\ ended_at[t] > sent_at[t]

\* resp is one of the expected failure modes: no answer in time, a
\* network-level failure, a status other than 200, a body with "ok" false.
ExpectedFailure(resp) ==
    \/ resp.kind \in {"silent", "client_error"}
    \/ resp.kind = "http" /\ resp.status # 200
    \/ Is200NotOk(resp)

\* C15 as claimed: a request that met an expected failure ends by returning
\* a value; it raises nothing.
C15_FailuresReturned ==
    \A t \in Requesters :
        (AsyncDone(t) /\ ExpectedFailure(Reply(t))) => outcome[t].tag = "return"

\* C15 as amended: a request that met an expected failure ends by raising,
\* never by returning a value: HTTPException 504 for a timeout, 502 for a
\* network-level failure, 502 naming the status for a status other than
\* 200, 400 with code and description for a body with "ok" false and a
\* result object, and AttributeError for one whose result is null.
C15_FailuresRaised ==
    \A t \in Requesters :
        (AsyncDone(t) /\ ExpectedFailure(Reply(t)))
            => LET resp == Reply(t)
                   o == outcome[t]
               IN  /\ o.tag = "raise"
                   /\ o.value = NoValue
                   /\ resp.kind = "silent"
                        => (o.exc = "HTTPException" /\ o.status_code = 504)
                   /\ resp.kind = "client_error"
                        => (o.exc = "HTTPException" /\ o.status_code = 502
                            /\ o.upstream = 0)
                   /\ (resp.kind = "http" /\ resp.status # 200)
                        => (o.exc = "HTTPException" /\ o.status_code = 502
                            /\ o.upstream = resp.status)
                   /\ (Is200NotOk(resp) /\ HasErrorObject(resp.body))
                        => (o.exc = "HTTPException" /\ o.status_code = 400)
                   /\ (Is200NotOk(resp) /\ ~HasErrorObject(resp.body))
                        => o.exc = "AttributeError"

\* C15's case: a request that met a status other than 200 has ended.
C15_Witness ==
    \E t \in Requesters :
        AsyncDone(t) /\ Reply(t) = R500 /\ outcome[t].tag = "raise"

\* --------------------------------------------------- reports.py: actions

\* get_partner_stock_operations is called against an upstream that answers
\* the documents request with d and the operations request with o: lines
\* 43-62, the documents request is sent and awaited.
StockOperations(d, o) ==
    /\ rep_pc = "idle"
    /\ rep_fn' = "get_partner_stock_operations"
    /\ rep_pc' = "docs"
    /\ answers' = [answers EXCEPT !["docs"] = d, !["operations"] = o]
    /\ sent' = {"docs"}
    /\ UNCHANGED <<got, doc_ids, result, notRep>>

\* The documents request ends.  Its exception leaves the method; lines
\* 64-75 otherwise: with nothing in docs the method returns {}, else the
\* operations request is sent with the ids of the documents and awaited.
DocsRespond ==
    LET o == Classify(answers["docs"]) IN
    /\ rep_pc = "docs"
    /\ got' = [got EXCEPT !["docs"] = o]
    /\ IF o.tag = "raise"
       THEN /\ result' = ReportRaised(o)
            /\ rep_pc' = "done"
            /\ UNCHANGED <<sent, doc_ids>>
       ELSE IF NothingIn(o.value)
       THEN /\ result' = ReportReturned(Absent, Absent, Absent, Absent)
            /\ rep_pc' = "done"
            /\ UNCHANGED <<sent, doc_ids>>
       ELSE /\ doc_ids' = DocIds(o.value.result)
            /\ sent' = sent \cup {"operations"}
            /\ rep_pc' = "operations"
            /\ UNCHANGED result
    /\ UNCHANGED <<rep_fn, answers, notRep>>

\* The operations request ends.  Its exception leaves the method; lines
\* 77-83 otherwise: with nothing in operations the method returns {}, else
\* the documents and the operations.
OperationsRespond ==
    LET o == Classify(answers["operations"]) IN
    /\ rep_pc = "operations"
    /\ got' = [got EXCEPT !["operations"] = o]
    /\ result' =
          IF o.tag = "raise" THEN ReportRaised(o)
          ELSE IF NothingIn(o.value)
               THEN ReportReturned(Absent, Absent, Absent, Absent)
               ELSE ReportReturned(got["docs"].value.result, o.value.result,
                                   Absent, Absent)
    /\ rep_pc' = "done"
    /\ UNCHANGED <<rep_fn, answers, sent, doc_ids, notRep>>

\* get_partner_payments is called against an upstream that answers the
\* Income request with i and the Outcome request with u: lines 95-114, both
\* requests are started by asyncio.gather and awaited together.
Payments(i, u) ==
    /\ rep_pc = "idle"
    /\ rep_fn' = "get_partner_payments"
    /\ rep_pc' = "gather"
    /\ answers' = [answers EXCEPT !["income"] = i, !["outcome"] = u]
    /\ sent' = PaymentRequests
    /\ UNCHANGED <<got, doc_ids, result, notRep>>

\* Lines 116-122: the dict built from the two values gather gave.
PaymentsResult(i, u) ==
    ReportReturned(Absent, Absent,
                   IF SomethingIn(i) THEN i.result ELSE Absent,
                   IF SomethingIn(u) THEN u.result ELSE Absent)

\* Request n of get_partner_payments ends.  While gather is awaited, the
\* first exception leaves gather and the method at once (the other request
\* runs on, its result is dropped); when both have returned, lines 116-122
\* build the result.
PaymentRespond(n) ==
    LET o == Classify(answers[n])
        g == [got EXCEPT ![n] = o]
    IN  /\ rep_fn = "get_partner_payments"
        /\ n \in sent
        /\ got[n] = NoOutcome
        /\ got' = g
        /\ IF rep_pc # "gather"
           THEN UNCHANGED <<rep_pc, result>>
           ELSE IF o.tag = "raise"
           THEN /\ result' = ReportRaised(o)
                /\ rep_pc' = "done"
           ELSE IF \A m \in PaymentRequests : g[m].tag = "return"
           THEN /\ result' = PaymentsResult(g["income"].value,
                                            g["outcome"].value)
                /\ rep_pc' = "done"
           ELSE UNCHANGED <<rep_pc, result>>
        /\ UNCHANGED <<rep_fn, answers, sent, doc_ids, notRep>>

ReportNext ==
    \/ \E d \in ReportResponses, o \in ReportResponses : StockOperations(d, o)
    \/ DocsRespond
    \/ OperationsRespond
    \/ \E i \in ReportResponses, u \in ReportResponses : Payments(i, u)
    \/ \E n \in PaymentRequests : PaymentRespond(n)

ReportSpec == Init /\ [][ReportNext]_vars

\* ---------------------------------------------------- reports.py: claims

\* Request n of the call was sent and met an expected failure.
FailedRequest(n) == n \in sent /\ ExpectedFailure(answers[n])

\* The dict the call returned holds no data.
EmptyResult ==
    /\ result.documents = Absent
    /\ result.operations = Absent
    /\ result.income = Absent
    /\ result.outcome = Absent

\* C18: a call of get_partner_stock_operations or get_partner_payments one
\* of whose requests failed (business error, transport error, timeout,
\* network error) never ends by returning a dict, empty or partial: it ends
\* by raising the error of a request of its, and no data comes with it.
C18_FailureIsHard ==
    (rep_pc = "done" /\ \E n \in RequestNames : FailedRequest(n))
        => /\ result.tag = "raise"
           /\ EmptyResult
           /\ \E n \in sent :
                 got[n].tag = "raise" /\ result.error = got[n]

\* C18's case: get_partner_payments has ended with one request failed and
\* the other answered with data; and so has get_partner_stock_operations,
\* see C18_WitnessStock.
C18_Witness ==
    /\ rep_pc = "done"
    /\ rep_fn = "get_partner_payments"
    /\ answers["income"] = R200ok
    /\ got["income"].tag = "return"
    /\ FailedRequest("outcome")
    /\ got["outcome"].tag = "raise"

\* get_partner_stock_operations has ended with documents found and the
\* operations request failed.
C18_WitnessStock ==
    /\ rep_pc = "done"
    /\ rep_fn = "get_partner_stock_operations"
    /\ got["docs"].tag = "return"
    /\ FailedRequest("operations")

\* ------------------------------------------ partner_balance.py: actions

\* format_partner_balance(d, l, translator, nf) is called and returns.
Format(d, l, nf) ==
    /\ ~formatted
    /\ formatted' = TRUE
    /\ data' = d
    /\ lang' = l
    /\ newest_first' = nf
    /\ messages' = FormatPartnerBalance(d, l, nf)
    /\ UNCHANGED notFmt

FormatNext ==
    \E d \in DataLists, l \in Languages, nf \in BOOLEAN : Format(d, l, nf)

FormatSpec == Init /\ [][FormatNext]_vars

\* ------------------------------------------- partner_balance.py: claims

\* C19: called with an empty data list, format_partner_balance returns a
\* list of exactly one message, the translation of no_data in the language
\* asked for, and no message for a currency.
C19_EmptyData ==
    (formatted /\ data = <<>>)
        => /\ Len(messages) = 1
           /\ messages[1].kind = "text"
           /\ messages[1].text = [lang |-> lang, key |-> "no_data"]
           /\ \A k \in 1 .. Len(messages) : messages[k].kind # "currency"

\* C19's case: the function has returned for an empty list and a language
\* other than the default one.
C19_Witness == formatted /\ data = <<>> /\ lang = "uz"

\* The operations of message m that are labelled as the current remainder.
CurrentOps(m) ==
    {m.blocks[n].op : n \in {k \in 1 .. Len(m.blocks) : m.blocks[k].current}}

\* C20: in every message for a currency exactly one operation is labelled
\* as the current remainder, and no operation of that currency has a later
\* date than it, whatever newest_first is.
C20_CurrentIsLatest ==
    formatted =>
        \A k \in 1 .. Len(messages) :
            messages[k].kind = "currency" =>
                /\ Cardinality(CurrentOps(messages[k])) = 1
                /\ \A i \in CurrentOps(messages[k]) :
                      \A j \in OpsOf(data, messages[k].currency) :
                          data[j].date <= data[i].date

\* ------------------------------------------- limiter registry: actions

\* The process's default limiter configuration has been set.
Configured == rate > 0 /\ capacity > 0

\* The process starts with the default limiter configuration rate = r,
\* capacity = b, both positive.
Configure(r, b) ==
    /\ ~Configured
    /\ rate' = r
    /\ capacity' = b
    /\ UNCHANGED <<now, wake, acquired, regVars, notReg>>

\* Task t calls getOrCreate(c) and asks for the registry's lock.
Enter(t, c) ==
    /\ Configured
    /\ reg_pc[t] = "idle"
    /\ acquired[t] < MaxRequests
    /\ reg_pc' = [reg_pc EXCEPT ![t] = "enter"]
    /\ cred' = [cred EXCEPT ![t] = c]
    /\ UNCHANGED <<entries, limiters, reg_lock, seen, mine, handed>>
    /\ UNCHANGED <<rate, capacity, now, wake, acquired, notReg>>

\* A faulty variant of MayEnter: the lookup and the insert are not covered
\* by the lock.
MayEnterUnlocked(t) == TRUE

\* Task t may take the registry's lock.
MayEnter(t) == reg_lock = NoTask

\* Task t, inside getOrCreate, takes the lock and looks its credential up.
Check(t) ==
    /\ reg_pc[t] = "enter"
    /\ MayEnter(t)
    /\ reg_lock' = t
    /\ seen' = [seen EXCEPT ![t] = entries[cred[t]]]
    /\ reg_pc' = [reg_pc EXCEPT ![t] = "check"]
    /\ UNCHANGED <<entries, limiters, cred, mine, handed>>
    /\ UNCHANGED <<rate, capacity, now, wake, acquired, notReg>>

\* RegosRateLimiter(rate, capacity) constructed for credential c.
NewLimiter(c) ==
    [credential |-> c, tokens |-> capacity, updated_at |-> now,
     lock |-> NoTask]

\* Task t, having found no limiter for its credential, constructs one with
\* the default configuration and enters it; having found one, takes that.
\* It leaves the lock and getOrCreate returns the limiter.
Insert(t) ==
    LET c == cred[t]
        id == IF seen[t] = 0 THEN Len(limiters) + 1 ELSE seen[t]
    IN  /\ reg_pc[t] = "check"
        /\ limiters' = IF seen[t] = 0 THEN Append(limiters, NewLimiter(c))
                       ELSE limiters
        /\ entries' = IF seen[t] = 0 THEN [entries EXCEPT ![c] = id]
                      ELSE entries
        /\ mine' = [mine EXCEPT ![t] = id]
        /\ handed' = [handed EXCEPT ![c] = @ \cup {id}]
        /\ reg_lock' = NoTask
        /\ reg_pc' = [reg_pc EXCEPT ![t] = "have"]
        /\ UNCHANGED <<cred, seen>>
        /\ UNCHANGED <<rate, capacity, now, wake, acquired, notReg>>

\* The limiter task t calls acquire() on: the one getOrCreate gave it.
LimiterOf(t) == mine[t]

\* A faulty variant of Store: tokens and updated_at are attributes of the
\* class, shared by all its objects.
StoreInClass(id, tok, at, holder) ==
    [i \in 1 .. Len(limiters) |->
        [limiters[i] EXCEPT !.tokens = tok, !.updated_at = at,
                            !.lock = IF i = id THEN holder ELSE @]]

\* The assignments to self.tokens, self.updated_at and the state of
\* self.lock in acquire(): they change the object acquire() is called on.
Store(id, tok, at, holder) ==
    [limiters EXCEPT ![id] =
        [@ EXCEPT !.tokens = tok, !.updated_at = at, !.lock = holder]]

\* Task t calls acquire() on its limiter, whose lock is free: lines 18-30 of
\* regos_rate_limiter.py up to the first await, on that object.  When
\* acquire() returns the task is done with the limiter.
RegAcquire(t) ==
    LET id == LimiterOf(t)
        obj == limiters[id]
        tok == Refilled(obj.tokens, now - obj.updated_at)
    IN  /\ reg_pc[t] = "have"
        /\ obj.lock = NoTask
        /\ IF BucketEmpty(tok)
           THEN /\ limiters' = Store(id, tok, now, t)
                /\ wake' = [wake EXCEPT ![t] = now + WaitTicks(tok)]
                /\ reg_pc' = [reg_pc EXCEPT ![t] = "sleep"]
                /\ UNCHANGED <<acquired, cred, seen, mine>>
           ELSE /\ limiters' = Store(id, tok - 1, now, NoTask)
                /\ acquired' = [acquired EXCEPT ![t] = @ + 1]
                /\ reg_pc' = [reg_pc EXCEPT ![t] = "idle"]
                /\ cred' = [cred EXCEPT ![t] = "none"]
                /\ seen' = [seen EXCEPT ![t] = 0]
                /\ mine' = [mine EXCEPT ![t] = 0]
                /\ UNCHANGED wake
        /\ UNCHANGED <<entries, reg_lock, handed>>
        /\ UNCHANGED <<rate, capacity, now, notReg>>

\* asyncio.sleep(wait_time) of task t is over: line 28 on its limiter, then
\* the limiter's lock is left and acquire() returns.
RegWake(t) ==
    LET id == LimiterOf(t) IN
    /\ reg_pc[t] = "sleep"
    /\ now >= wake[t]
    /\ limiters' = Store(id, 0, limiters[id].updated_at, NoTask)
    /\ acquired' = [acquired EXCEPT ![t] = @ + 1]
    /\ reg_pc' = [reg_pc EXCEPT ![t] = "idle"]
    /\ cred' = [cred EXCEPT ![t] = "none"]
    /\ seen' = [seen EXCEPT ![t] = 0]
    /\ mine' = [mine EXCEPT ![t] = 0]
    /\ UNCHANGED <<entries, reg_lock, handed>>
    /\ UNCHANGED <<rate, capacity, now, wake, notReg>>

\* A task asleep in acquire() on a registry limiter still needs time.
RegSleeperWaiting == \E t \in Tasks : reg_pc[t] = "sleep" /\ now < wake[t]

\* One tick of time.monotonic().
RegTick ==
    /\ Configured
    /\ now < MaxTime \/ RegSleeperWaiting
    /\ now' = now + 1
    /\ UNCHANGED <<rate, capacity, wake, acquired, regVars, notReg>>

RegNext ==
    \/ \E r \in 1 .. MaxParam, b \in 1 .. MaxParam : Configure(r, b)
    \/ \E t \in Tasks, c \in Credentials : Enter(t, c)
    \/ \E t \in Tasks : Check(t)
    \/ \E t \in Tasks : Insert(t)
    \/ \E t \in Tasks : RegAcquire(t)
    \/ \E t \in Tasks : RegWake(t)
    \/ RegTick

RegSpec == Init /\ [][RegNext]_vars

\* -------------------------------------------- limiter registry: claims

\* The limiters constructed for credential c.
LimitersFor(c) == {i \in 1 .. Len(limiters) : limiters[i].credential = c}

\* C16: at most one limiter exists per credential, and getOrCreate gives
\* the same limiter, the one entered for the credential, on every call for
\* it, also when the first calls for it are made concurrently.
C16_OneLimiterPerCredential ==
    \A c \in Credentials :
        /\ Cardinality(LimitersFor(c)) <= 1
        /\ Cardinality(handed[c]) <= 1
        /\ handed[c] \subseteq {entries[c]}
        /\ \A t \in Tasks :
              (cred[t] = c /\ mine[t] # 0 /\ reg_pc[t] # "check"
               /\ reg_pc[t] # "enter") => mine[t] = entries[c]

\* C16's case: both tasks made their first call of getOrCreate for the same
\* credential at the same time, and both calls have returned.
C16_Witness ==
    /\ cred["t1"] = cred["t2"]
    /\ \A t \in Tasks : reg_pc[t] = "have" /\ acquired[t] = 0
    /\ mine["t1"] = mine["t2"]
    /\ mine["t1"] # 0

\* Task t takes a step of acquire() on its limiter.
AcquireStep(t) == reg_pc[t] \in {"have", "sleep"} /\ reg_pc'[t] # reg_pc[t]

\* C17: two credentials never have the same limiter, and a step of
\* acquire() made for one credential leaves the limiter of every other
\* credential as it is, tokens and time of the last refill included.
C17_NoSharing ==
    /\ [](\A c \in Credentials : \A b \in Credentials \ {c} :
              entries[c] # 0 => entries[c] # entries[b])
    /\ [][\A t \in Tasks :
              AcquireStep(t) =>
                  \A c \in Credentials \ {cred[t]} :
                      entries[c] # 0 =>
                          limiters'[entries[c]] = limiters[entries[c]]]_vars

\* C17's case: both credentials have a limiter, and acquire() has returned
\* for each of them, on one after a refill for time passed.
C17_Witness ==
    /\ \A c \in Credentials : entries[c] # 0
    /\ \A t \in Tasks : acquired[t] >= 1
    /\ \A i \in 1 .. Len(limiters) : limiters[i].tokens < capacity
    /\ \E i \in 1 .. Len(limiters) : limiters[i].updated_at > 0

\* --------------------------- limiter: refill, slow path, lock (claims)

\* Task t runs lines 18-30 up to the first await in this step: it has called
\* acquire() on a free lock, or has been handed the lock and is resumed.
Refills(t) ==
    /\ pc[t] \in {"idle", "granted"}
    /\ \/ pc'[t] \in {"sleep", "raised"}
       \/ acquired'[t] = acquired[t] + 1

\* min(capacity, tokens + elapsed * rate) as a real number, in units of
\* 1/TicksPerSec of a token.
ExactRefill == Min(capacity * TicksPerSec,
                   tokens * TicksPerSec + (now - updated_at) * rate)

\* C21: on a valid limiter every acquisition attempt sets lastRefill to now
\* and, before it consumes, sets tokens to exactly
\* min(capacity, tokens + elapsed * rate): the attempt leaves that value less
\* the unit it took on the fast path, and that value itself, a fraction
\* included, when it goes to the slow path.
C21_RefillExact ==
    [][\A t \in Tasks :
          (Valid /\ Refills(t)) =>
              /\ updated_at' = now
              /\ tokens' * TicksPerSec =
                     IF ExactRefill >= TicksPerSec
                     THEN ExactRefill - TicksPerSec
                     ELSE ExactRefill]_vars

\* C22: on a valid limiter a caller on the slow path has found tokens < 1
\* after the refill and is suspended for wait = (1 - tokens) / rate, up to
\* the first tick at which that wait is over; it returns with tokens = 0;
\* and with rate = 2 and capacity = 1 the second of two sequential calls on
\* a fresh limiter has resumed no sooner than 0.45 s after the first
\* completed (the first completes in the step it is made in, at firstAt).
C22_SlowPath ==
    /\ [](\A t \in Tasks :
              (Valid /\ pc[t] = "sleep") =>
                  /\ tokens < 1
                  /\ (wake[t] - updated_at) * rate >= (1 - tokens) * TicksPerSec
                  /\ (wake[t] - updated_at - 1) * rate
                         < (1 - tokens) * TicksPerSec)
    /\ [][\A t \in Tasks :
              (Valid /\ pc[t] = "sleep" /\ pc'[t] # "sleep") =>
                  (now >= wake[t] /\ pc'[t] = "idle" /\ tokens' = 0)]_vars
    /\ [](\A t \in Tasks :
              (made /\ rate = 2 /\ capacity = 1 /\ OnlyCaller(t)
                    /\ acquired[t] >= 2)
                  => (now - firstAt) * 100 >= 45 * TicksPerSec)

\* C22's case: with rate = 2 and capacity = 1 a single caller's second call
\* was made at the tick of the first (the last refill is still that of
\* firstAt), went to the slow path and has returned.
C22_Witness ==
    /\ made /\ rate = 2 /\ capacity = 1
    /\ \E t \in Tasks :
          /\ OnlyCaller(t)
          /\ acquired[t] = 2
          /\ pc[t] = "idle"
    /\ updated_at = firstAt
    /\ now > firstAt
    /\ tokens = 0

\* Task t is inside the refill-and-consume section: asleep on the slow path,
\* or handed the lock and about to run the section.
InSection(t) == pc[t] \in {"sleep", "granted"}

\* C23: tokens and updated_at of a constructed limiter are written only by
\* the task that holds the lock (a caller that finds the lock free takes it
\* in the step it runs the section in); at most one task is inside the
\* section, and it is the holder; and every call admitted on the fast path
\* finds a whole token after the refill and leaves exactly one fewer.
C23_LockExclusive ==
    /\ [](/\ \A t \in Tasks : InSection(t) => lock = t
          /\ Cardinality({t \in Tasks : InSection(t)}) <= 1)
    /\ [][(made /\ (tokens' # tokens \/ updated_at' # updated_at)) =>
              \E t \in Tasks :
                  \/ Refills(t) /\ pc[t] = "idle" /\ lock = NoTask
                  \/ Refills(t) /\ pc[t] = "granted" /\ lock = t
                  \/ pc[t] = "sleep" /\ pc'[t] = "idle" /\ lock = t]_vars
    /\ [][\A t \in Tasks :
              (Valid /\ Refills(t) /\ acquired'[t] = acquired[t] + 1) =>
                  /\ Refilled(tokens, now - updated_at) >= 1
                  /\ tokens' = Refilled(tokens, now - updated_at) - 1]_vars

\* C23's case: two callers are inside acquire() at once, each with a call
\* already admitted: one holds the lock asleep on the slow path, the other
\* is queued for it.
C23_Witness ==
    \E t \in Tasks : \E u \in Tasks \ {t} :
        /\ Valid
        /\ pc[t] = "sleep" /\ lock = t
        /\ pc[u] = "waitlock"
        /\ acquired[t] >= 1 /\ acquired[u] >= 1

\* C24: a caller suspended in the delay of the slow path does not hold the
\* limiter's lock, so that another caller can enter the refill-and-consume
\* section meanwhile.
C24_SleepWithoutLock ==
    \A t \in Tasks : (Valid /\ pc[t] = "sleep" /\ now < wake[t]) => lock # t

\* ------------------------------------- api.py: state machine, conventions

\* The terminal state an ended request of regos_async_api_request is in:
\* Success for a returned body, and for a raised HTTPException by its
\* status_code and by whether its detail names an upstream status; "none"
\* for any other way of ending.
Variant(o) ==
    CASE o.tag = "return" -> "Success"
      [] o.exc = "HTTPException" /\ o.status_code = BAD_REQUEST ->
            "BusinessError"
      [] o.exc = "HTTPException" /\ o.status_code = GATEWAY_TIMEOUT ->
            "TimeoutError"
      [] o.exc = "HTTPException" /\ o.status_code = BAD_GATEWAY
            /\ o.upstream # 0 -> "TransportError"
      [] o.exc = "HTTPException" /\ o.status_code = BAD_GATEWAY
            /\ o.upstream = 0 -> "NetworkError"
      [] OTHER -> "none"

TerminalStates ==
    {"Success", "BusinessError", "TransportError", "TimeoutError",
     "NetworkError"}

\* C25: a request is sent only once admitted (no more attempts than
\* acquire() calls returned); an ended request is in one of the five
\* terminal states; an ended request takes no further step (no attempt, no
\* other outcome); and a 429 response does not end the request, which goes
\* back to be admitted and sent again.
C25_StateMachine ==
    /\ [](\A t \in Requesters : rpc[t] = "post" => attempts[t] <= acquired[t])
    /\ [](\A t \in Requesters :
              AsyncDone(t) => Variant(outcome[t]) \in TerminalStates)
    /\ [][\A t \in Requesters :
              AsyncDone(t) =>
                  /\ rpc'[t] = "done"
                  /\ outcome'[t] = outcome[t]
                  /\ attempts'[t] = attempts[t]]_vars
    /\ [][\A t \in Requesters :
              (rpc[t] = "post" /\ rpc'[t] = "done") => Reply(t) # R429]_vars

\* Task t's request was made through regos_api_request and has ended.
SyncDone(t) == rpc[t] = "done" /\ outcome[t].via = "regos_api_request"

\* resp is an HTTP response with a status other than 200, 429 included.
IsNon200(resp) == resp.kind = "http" /\ resp.status # HTTP_OK

StockCall == rep_fn = "get_partner_stock_operations"

\* The documents request has ended with a 200 response whose "ok" is true
\* and whose "result" lists at least one document.
DocsFound ==
    /\ got["docs"].tag = "return"
    /\ Is200Ok(answers["docs"])
    /\ Documents(got["docs"].value.result) # <<>>

\* C27: get_partner_stock_operations sends the operations request only once
\* the documents request has succeeded with a result that is not empty, and
\* with document_ids holding the id of each returned document, in order and
\* nothing else; and when the documents request succeeded with an empty
\* result, the call ends with no operations request sent and returns an
\* empty dict.
C27_StockSequencing ==
    StockCall =>
        /\ "operations" \in sent =>
              /\ DocsFound
              /\ Len(doc_ids) = Len(Documents(got["docs"].value.result))
              /\ \A k \in 1 .. Len(doc_ids) :
                    doc_ids[k] = Documents(got["docs"].value.result)[k].id
        /\ (got["docs"].tag = "return" /\ ~DocsFound) =>
              /\ rep_pc = "done"
              /\ "operations" \notin sent
              /\ result.tag = "return"
              /\ EmptyResult

\* C27's case: the documents request returned two documents and the call
\* has ended, the operations request made and answered.
C27_Witness ==
    /\ StockCall
    /\ rep_pc = "done"
    /\ Len(Documents(got["docs"].value.result)) = 2
    /\ got["operations"].tag = "return"
    /\ result.operations # Absent

\* C27's other case: the documents request returned an empty list and the
\* call has ended.
C27_WitnessEmpty ==
    /\ StockCall
    /\ rep_pc = "done"
    /\ answers["docs"] = R200empty

\* The call is one of get_partner_payments.
PaymentsCall == rep_fn = "get_partner_payments"

\* Request n is answered with a 200 response whose "ok" is true and whose
\* "result" is not empty.
Fruitful(n) ==
    Is200Ok(answers[n]) /\ answers[n].body.result \notin {"empty", Absent}

\* The key of the returned dict that belongs to request n.
KeyOf(n) == IF n = "income" THEN result.income ELSE result.outcome

\* C28: get_partner_payments has both its requests in flight before either
\* is answered; it returns only when both have returned; the dict it
\* returns has the key income (outcome) exactly when that request was
\* answered with ok true and a result that is not empty, and under it that
\* result; and when either request is one that fails, the call does not
\* return, with the other's data or without: it ends by raising.
C28_PaymentsGather ==
    PaymentsCall =>
        /\ sent = PaymentRequests
        /\ result.tag = "return" =>
              /\ \A n \in PaymentRequests : got[n].tag = "return"
              /\ \A n \in PaymentRequests :
                    /\ KeyOf(n) # Absent <=> Fruitful(n)
                    /\ Fruitful(n) => KeyOf(n) = answers[n].body.result
        /\ (rep_pc = "done"
                /\ \E n \in PaymentRequests : Classify(answers[n]).tag = "raise")
              => (result.tag = "raise" /\ EmptyResult)

\* C28's case: both requests were answered, the Income request with data
\* and the Outcome request with an empty list, and the call has returned.
C28_Witness ==
    /\ PaymentsCall
    /\ rep_pc = "done"
    /\ result.tag = "return"
    /\ Fruitful("income")
    /\ answers["outcome"] = R200empty

\* C28's other case: the Outcome request failed while the Income request
\* was still in flight, and the call has ended at once.
C28_WitnessFailure ==
    /\ PaymentsCall
    /\ rep_pc = "done"
    /\ got["outcome"].tag = "raise"
    /\ got["income"] = NoOutcome
    /\ Fruitful("income")

\* ------------------------------------------ limiter: cancellation (claims)

\* Task t's call of acquire() is suspended: queued for the lock, handed it,
\* or asleep on the slow path.
Suspended(t) == pc[t] \in {"waitlock", "granted", "sleep"}

\* C29: when a caller is cancelled while suspended inside acquire(), the
\* lock is not left with it (nor is it left in the lock's queue),
\* 0 <= tokens <= capacity still holds, and every call of another task that
\* is suspended then or made later comes to an end, which is its return
\* (counted as one more admitted call) unless that call is cancelled itself.
C29_CancelSafe ==
    /\ [](\A t \in Tasks :
              pc[t] = "cancelled" =>
                  /\ lock # t
                  /\ \A i \in 1 .. Len(waiters) : waiters[i] # t)
    /\ [](Valid => (0 <= tokens /\ tokens <= capacity))
    /\ [][\A u \in Tasks :
              (Valid /\ Suspended(u) /\ pc'[u] \notin {"waitlock", "granted",
                                                       "sleep"}) =>
                  \/ pc'[u] = "idle" /\ acquired'[u] = acquired[u] + 1
                  \/ pc'[u] = "cancelled"]_vars
    /\ \A t \in Tasks : \A u \in Tasks \ {t} :
          (Valid /\ pc[t] = "cancelled" /\ Suspended(u)) ~> ~Suspended(u)

\* C29's case: a caller was cancelled in the delay of the slow path with
\* another caller queued behind it: the other now has the lock and waits
\* in its turn.
C29_Witness ==
    \E t \in Tasks : \E u \in Tasks \ {t} :
        /\ Valid
        /\ pc[t] = "cancelled"
        /\ now < wake[t]
        /\ pc[u] = "sleep"
        /\ lock = u

====
